---- MODULE Spec2Model ----
(***************************************************************************)
(* Model of the falling-sand grid of rust-sand-sim (src/main.rs, SandGrid; *)
(* src/primitives.rs, CpuTexture; src/utils.rs, new_texture).              *)
(*                                                                         *)
(* Numbers.  f32 velocities are kept in thousandths of a cell per second   *)
(* (1.0 = 1000) and dt in tenths of a second, so ACCEL * dt = 981 * dt     *)
(* thousandths exactly.  usize values are kept as integers that stand for  *)
(* their residue modulo 2^64: the only value that wraps is x - 1 at x = 0, *)
(* kept as -1; an index y*width + x computed from it is the residue of the *)
(* same integer expression, which is in range of an array exactly when the *)
(* integer lies in 0 .. len-1.                                             *)
(***************************************************************************)
EXTENDS Integers, Sequences, FiniteSets, TLC

\* ------------------------------------------------------------------ bounds
width == 3
height == 4
MaxSpawns == 2
MaxAdvances == 1
MaxPile == 3
MaxPileAdvances == 2
MaxLoneAdvances == 4
MaxRestAdvances == 5
MaxDt == 5

\* --------------------------------------------------------------- constants
ACCEL == 981
SEED == 1000
THRESHOLD == 1000

NCells == width * height
Cells == 0 .. (NCells - 1)
Bytes == 0 .. (4 * NCells - 1)
DtSet == {0, MaxDt}

VARIABLES
    meta,       \* SandGrid.meta: Vec<u8>, cell index -> 0 / 1
    velocity,   \* SandGrid.velocity: Vec<f32>, cell index -> thousandths
    data,       \* SandGrid.color.data: Vec<u8>, byte index -> 0..255
    panicked,   \* the process has panicked (and ended)
    build,      \* "debug": overflow checks on; "release": arithmetic wraps
    nSpawn, nAdv,
    lastOp,     \* the last call made: [op, x, y, dt]
    prevOp,     \* the call before it
    pre,        \* the three arrays as they were when the last call started
    swaps,      \* last call: the swap_cell calls, as <<i, i1, who>>, in order
    visits,     \* last call: whose velocity was integrated, in order
    moments,    \* last call: per visit, the cell, v_next and the cells occupied then
    probes,     \* last call: the neighbour columns looked at, <<x', y'>>
    ident       \* last call: cell index -> the cell its content started in

vars == <<meta, velocity, data, panicked, build, nSpawn, nAdv,
          lastOp, prevOp, pre, swaps, visits, moments, probes, ident>>

\* ------------------------------------------------------------------ helpers
Min(a, b) == IF a < b THEN a ELSE b

\* f32::round for a non-negative value given in thousandths
round(v) == (v + 500) \div 1000

\* a cast that keeps the low eight bits instead of saturating
red_of_wrap(v) == ((v * 255 + 5000) \div 10000) % 256

\* (v_next/10.0 * 255.0).round() as u8 : the cast saturates at 255
red_of(v) == Min((v * 255 + 5000) \div 10000, 255)

is_pixel_solid(info) == info # 0

\* a step that adds the acceleration whatever the elapsed time
integrate_nodt(v, dt) == v + ACCEL

\* let v_next = v + ACCEL * dt
integrate(v, dt) == v + ACCEL * dt

\* a threshold that also stops a particle at exactly 1.0
below_threshold_le(v_next) == v_next <= THRESHOLD

\* if v_next < 1.0 { continue; }
below_threshold(v_next) == v_next < THRESHOLD

\* the test with its negation dropped
can_fall_inv(pixel_bellow) == pixel_bellow # 0

\* if !Self::is_pixel_solid(pixel_bellow) { swap straight down }
can_fall(pixel_bellow) == ~is_pixel_solid(pixel_bellow)

\* a floor test one row past the last one
is_floor_past(y) == y = height

\* if y == self.height - 1 { continue; }
is_floor(y) == y = height - 1

\* a target one row down whatever the velocity
target_row_one(y, v_next) == Min(y + 1, height - 1)

\* std::cmp::min(y + v_next.round() as usize, self.height - 1)
target_row(y, v_next) == Min(y + round(v_next), height - 1)

coord_to_index(x, y) == y * width + x

\* utils::new_texture: the background gradient
new_texture ==
    [b \in Bytes |->
        LET i == b \div 4
            x == i % width
            y == i \div width
        IN CASE b % 4 = 0 -> (x * 255) \div width
             [] b % 4 = 1 -> (2 * y * 255 + height) \div (2 * height)
             [] OTHER -> 255]

\* ------------------------------------------------------------- CpuTexture
\* a grid in flight: the arrays plus what the call has done so far
set_pixel(s, x, y, r, g, b, a) ==
    LET i == (y * width + x) * 4 IN
    IF s.panicked THEN s
    ELSE IF ~(i \in Bytes) THEN [s EXCEPT !.panicked = TRUE]
    ELSE [s EXCEPT !.data = [[[[@ EXCEPT ![i] = r] EXCEPT ![i + 1] = g]
                                 EXCEPT ![i + 2] = b] EXCEPT ![i + 3] = a]]

get_pixel(d, x, y) ==
    LET i == (y * width + x) * 4 IN
    <<d[i], d[i + 1], d[i + 2], d[i + 3]>>

\* --------------------------------------------------------------- SandGrid
\* a swap that never writes the saved flag back to the source cell
swap_meta_lost(m, i, i1) == [m EXCEPT ![i1] = m[i]]

\* let t = meta[i1]; meta[i1] = meta[i]; meta[i] = t
swap_meta(m, i, i1) == [m EXCEPT ![i1] = m[i], ![i] = m[i1]]

\* a swap that never writes the saved velocity back to the source cell
swap_velocity_lost(vel, i, i1) == [vel EXCEPT ![i1] = vel[i]]

\* let v = velocity[i1]; velocity[i1] = velocity[i]; velocity[i] = v
swap_velocity(vel, i, i1) == [vel EXCEPT ![i1] = vel[i], ![i] = vel[i1]]

swap_cell(s, x, y, x1, y1) ==
    LET i == y * width + x
        i1 == y1 * width + x1
    IN
    IF s.panicked THEN s
    ELSE IF ~(i \in Cells /\ i1 \in Cells) THEN [s EXCEPT !.panicked = TRUE]
    ELSE
        LET pixel == get_pixel(s.data, x, y)
            pixel1 == get_pixel(s.data, x1, y1)
            sm == [s EXCEPT !.meta = swap_meta(@, i, i1),
                            !.ident = [@ EXCEPT ![i1] = s.ident[i], ![i] = s.ident[i1]],
                            !.swaps = Append(@, <<i, i1, s.ident[i]>>)]
            sc1 == set_pixel(sm, x1, y1, pixel[1], pixel[2], pixel[3], pixel[4])
            sc == set_pixel(sc1, x, y, pixel1[1], pixel1[2], pixel1[3], pixel1[4])
        IN [sc EXCEPT !.velocity = swap_velocity(@, i, i1)]

\* a spawn that leaves the velocity of the cell as it finds it
spawn_sand_at_noseed(s, x, y) ==
    LET i == y * width + x IN
    IF ~(i \in Cells) THEN [s EXCEPT !.panicked = TRUE]
    ELSE set_pixel([s EXCEPT !.meta = [@ EXCEPT ![i] = 1]],
                   x, y, 0, 255, 255, 255)

\* a spawn that adds the seed to the velocity the cell already holds
spawn_sand_at_add(s, x, y) ==
    LET i == y * width + x IN
    IF ~(i \in Cells) THEN [s EXCEPT !.panicked = TRUE]
    ELSE set_pixel([s EXCEPT !.meta = [@ EXCEPT ![i] = 1],
                             !.velocity = [@ EXCEPT ![i] = @ + SEED]],
                   x, y, 0, 255, 255, 255)

spawn_sand_at(s, x, y) ==
    LET i == y * width + x IN
    IF ~(i \in Cells) THEN [s EXCEPT !.panicked = TRUE]
    ELSE set_pixel([s EXCEPT !.meta = [@ EXCEPT ![i] = 1],
                             !.velocity = [@ EXCEPT ![i] = SEED]],
                   x, y, 0, 255, 255, 255)

\* the "find the next collision" loop of simulate
RECURSIVE find_collision(_, _, _, _, _)
find_collision(m, x, y_bellow, y_target, y_target_collision) ==
    IF y_bellow > y_target THEN y_target_collision
    ELSE IF y_bellow = height - 1 THEN y_target_collision
    ELSE IF is_pixel_solid(m[coord_to_index(x, y_bellow)]) THEN y_target_collision
    ELSE find_collision(m, x, y_bellow + 1, y_target, y_bellow)

\* the diagonals with the right one tried even after the left one was taken
diagonal_both(s, x, y, y_target_collision) ==
    LET i_pixel_bellow_r == coord_to_index(x + 1, y_target_collision)
        xl == x - 1
        i_pixel_bellow_l == coord_to_index(xl, y_target_collision)
        sp == [s EXCEPT !.probes = @ \cup {<<xl, y_target_collision>>,
                                           <<x + 1, y_target_collision>>}]
        sl == IF ~is_pixel_solid(s.meta[i_pixel_bellow_l])
              THEN swap_cell(sp, x, y, xl, y_target_collision) ELSE sp
    IN
    IF x = 0 /\ build = "debug" THEN [sp EXCEPT !.panicked = TRUE]
    ELSE IF ~(i_pixel_bellow_l \in Cells) THEN [sp EXCEPT !.panicked = TRUE]
    ELSE IF ~(i_pixel_bellow_r \in Cells) THEN [sp EXCEPT !.panicked = TRUE]
    ELSE IF ~is_pixel_solid(s.meta[i_pixel_bellow_r])
         THEN swap_cell(sl, x, y, x + 1, y_target_collision)
    ELSE sl

\* the diagonals taken one row up instead of one row down
diagonal_up(s, x, y, y_target_collision) ==
    LET y_up == y - (y_target_collision - y)
        i_pixel_bellow_r == coord_to_index(x + 1, y_up)
        xl == x - 1
        i_pixel_bellow_l == coord_to_index(xl, y_up)
        sp == [s EXCEPT !.probes = @ \cup {<<xl, y_up>>, <<x + 1, y_up>>}]
    IN
    IF x = 0 /\ build = "debug" THEN [sp EXCEPT !.panicked = TRUE]
    ELSE IF ~(i_pixel_bellow_l \in Cells) THEN [sp EXCEPT !.panicked = TRUE]
    ELSE IF ~(i_pixel_bellow_r \in Cells) THEN [sp EXCEPT !.panicked = TRUE]
    ELSE IF ~is_pixel_solid(s.meta[i_pixel_bellow_l])
         THEN swap_cell(sp, x, y, xl, y_up)
    ELSE IF ~is_pixel_solid(s.meta[i_pixel_bellow_r])
         THEN swap_cell(sp, x, y, x + 1, y_up)
    ELSE sp

\* the diagonals with the right one tried before the left one
diagonal_right_first(s, x, y, y_target_collision) ==
    LET i_pixel_bellow_r == coord_to_index(x + 1, y_target_collision)
        xl == x - 1
        i_pixel_bellow_l == coord_to_index(xl, y_target_collision)
        sp == [s EXCEPT !.probes = @ \cup {<<xl, y_target_collision>>,
                                           <<x + 1, y_target_collision>>}]
    IN
    IF x = 0 /\ build = "debug" THEN [sp EXCEPT !.panicked = TRUE]
    ELSE IF ~(i_pixel_bellow_l \in Cells) THEN [sp EXCEPT !.panicked = TRUE]
    ELSE IF ~(i_pixel_bellow_r \in Cells) THEN [sp EXCEPT !.panicked = TRUE]
    ELSE IF ~is_pixel_solid(s.meta[i_pixel_bellow_r])
         THEN swap_cell(sp, x, y, x + 1, y_target_collision)
    ELSE IF ~is_pixel_solid(s.meta[i_pixel_bellow_l])
         THEN swap_cell(sp, x, y, xl, y_target_collision)
    ELSE sp

\* the diagonals with the right one taken without testing it
diagonal_else(s, x, y, y_target_collision) ==
    LET i_pixel_bellow_r == coord_to_index(x + 1, y_target_collision)
        xl == x - 1
        i_pixel_bellow_l == coord_to_index(xl, y_target_collision)
        sp == [s EXCEPT !.probes = @ \cup {<<xl, y_target_collision>>,
                                           <<x + 1, y_target_collision>>}]
    IN
    IF x = 0 /\ build = "debug" THEN [sp EXCEPT !.panicked = TRUE]
    ELSE IF ~(i_pixel_bellow_l \in Cells) THEN [sp EXCEPT !.panicked = TRUE]
    ELSE IF ~(i_pixel_bellow_r \in Cells) THEN [sp EXCEPT !.panicked = TRUE]
    ELSE IF ~is_pixel_solid(s.meta[i_pixel_bellow_l])
         THEN swap_cell(sp, x, y, xl, y_target_collision)
    ELSE swap_cell(sp, x, y, x + 1, y_target_collision)

\* the else branch of simulate: the cell below is solid, try the diagonals
diagonal(s, x, y, y_target_collision) ==
    LET i_pixel_bellow_r == coord_to_index(x + 1, y_target_collision)
        xl == x - 1
        i_pixel_bellow_l == coord_to_index(xl, y_target_collision)
        sp == [s EXCEPT !.probes = @ \cup {<<xl, y_target_collision>>,
                                           <<x + 1, y_target_collision>>}]
    IN
    IF x = 0 /\ build = "debug" THEN [sp EXCEPT !.panicked = TRUE]
    ELSE IF ~(i_pixel_bellow_l \in Cells) THEN [sp EXCEPT !.panicked = TRUE]
    ELSE IF ~(i_pixel_bellow_r \in Cells) THEN [sp EXCEPT !.panicked = TRUE]
    ELSE IF ~is_pixel_solid(s.meta[i_pixel_bellow_l])
         THEN swap_cell(sp, x, y, xl, y_target_collision)
    ELSE IF ~is_pixel_solid(s.meta[i_pixel_bellow_r])
         THEN swap_cell(sp, x, y, x + 1, y_target_collision)
    ELSE sp

\* the body of the two loops of simulate, for one (x, y)
simulate_cell(s, x, y, dt) ==
    LET i_current == coord_to_index(x, y) IN
    IF s.panicked THEN s
    ELSE IF ~is_pixel_solid(s.meta[i_current]) THEN s
    ELSE IF is_floor(y) THEN s
    ELSE
        LET v == s.velocity[i_current]
            v_next == integrate(v, dt)
            s1 == set_pixel([s EXCEPT !.velocity = [@ EXCEPT ![i_current] = v_next],
                                      !.visits = Append(@, s.ident[i_current]),
                                      !.moments = Append(@,
                                          [cell |-> i_current, v |-> v_next,
                                           occ |-> {i \in Cells : s.meta[i] # 0}])],
                            x, y, red_of(v_next), 0, 0, 255)
        IN
        IF below_threshold(v_next) THEN s1
        ELSE
            LET y_target == target_row(y, v_next)
                y_target_collision == find_collision(s1.meta, x, y + 1, y_target, y + 1)
                i_bellow == coord_to_index(x, y_target_collision)
            IN
            IF ~(i_bellow \in Cells) THEN [s1 EXCEPT !.panicked = TRUE]
            ELSE IF can_fall(s1.meta[i_bellow])
            THEN swap_cell(s1, x, y, x, y_target_collision)
            ELSE diagonal(s1, x, y, y_target_collision)

\* for y in (0..height).rev() { for x in 0..width { ... } }, k-th iteration on
RECURSIVE simulate_from(_, _, _)
simulate_from(s, k, dt) ==
    IF k >= NCells THEN s
    ELSE simulate_from(simulate_cell(s, k % width, (height - 1) - (k \div width), dt),
                       k + 1, dt)

simulate(s, dt) == simulate_from(s, 0, dt)

\* ------------------------------------------------------------ state machine
Snapshot == [meta |-> meta, velocity |-> velocity, data |-> data]

\* the grid at the start of a call: every cell's content is known by its cell
Start ==
    [meta |-> meta, velocity |-> velocity, data |-> data, panicked |-> FALSE,
     swaps |-> <<>>, visits |-> <<>>, moments |-> <<>>, probes |-> {},
     ident |-> [i \in Cells |-> i]]

NoOp == [op |-> "new", x |-> 0, y |-> 0, dt |-> 0]

Commit(s, op) ==
    /\ meta' = s.meta
    /\ velocity' = s.velocity
    /\ data' = s.data
    /\ panicked' = s.panicked
    /\ swaps' = s.swaps
    /\ visits' = s.visits
    /\ moments' = s.moments
    /\ probes' = s.probes
    /\ ident' = s.ident
    /\ pre' = Snapshot
    /\ prevOp' = lastOp
    /\ lastOp' = op
    /\ build' = build

\* SandGrid::new
Init ==
    /\ meta = [i \in Cells |-> 0]
    /\ velocity = [i \in Cells |-> 0]
    /\ data = new_texture
    /\ panicked = FALSE
    /\ build \in {"debug", "release"}
    /\ nSpawn = 0
    /\ nAdv = 0
    /\ lastOp = NoOp
    /\ prevOp = NoOp
    /\ pre = Snapshot
    /\ swaps = <<>>
    /\ visits = <<>>
    /\ moments = <<>>
    /\ probes = {}
    /\ ident = [i \in Cells |-> i]

\* MyApp::update, mouse branch: spawn_sand_at with an in-bounds coordinate
Spawn ==
    /\ ~panicked
    /\ nSpawn < MaxSpawns
    /\ \E x \in 0 .. (width - 1), y \in 0 .. (height - 1) :
         Commit(spawn_sand_at(Start, x, y), [op |-> "spawn", x |-> x, y |-> y, dt |-> 0])
    /\ nSpawn' = nSpawn + 1
    /\ nAdv' = nAdv

\* MyApp::update: simulate(dt), at most limit times
StepAdvance(limit) ==
    /\ ~panicked
    /\ nAdv < limit
    /\ \E dt \in DtSet :
         Commit(simulate(Start, dt), [op |-> "advance", x |-> 0, y |-> 0, dt |-> dt])
    /\ nAdv' = nAdv + 1
    /\ nSpawn' = nSpawn

Advance == StepAdvance(MaxAdvances)

Next == Spawn \/ Advance

\* a new grid, then spawn and advance calls in any order
Spec == Init /\ [][Next]_vars

\* the sets of at most n cells
RECURSIVE PilesUpTo(_)
PilesUpTo(n) ==
    IF n = 0 THEN {{}}
    ELSE LET smaller == PilesUpTo(n - 1)
         IN smaller \cup {p \cup {c} : p \in smaller, c \in Cells}

\* spawn_sand_at called once for every cell of a set, on grid s
RECURSIVE spawn_all(_, _)
spawn_all(s, cells) ==
    IF cells = {} THEN s
    ELSE LET c == CHOOSE i \in cells : \A j \in cells : i <= j
         IN spawn_all(spawn_sand_at(s, c % width, c \div width), cells \ {c})

NewGrid ==
    [meta |-> [i \in Cells |-> 0], velocity |-> [i \in Cells |-> 0],
     data |-> new_texture, panicked |-> FALSE,
     swaps |-> <<>>, visits |-> <<>>, moments |-> <<>>, probes |-> {},
     ident |-> [i \in Cells |-> i]]

\* SandGrid::new followed by spawn_sand_at on a set of at most MaxPile cells
InitPile ==
    /\ \E pile \in PilesUpTo(MaxPile) :
          LET s == spawn_all(NewGrid, pile) IN
          /\ meta = s.meta
          /\ velocity = s.velocity
          /\ data = s.data
    /\ panicked = FALSE
    /\ build \in {"debug", "release"}
    /\ nSpawn = 0
    /\ nAdv = 0
    /\ lastOp = NoOp
    /\ prevOp = NoOp
    /\ pre = Snapshot
    /\ swaps = <<>>
    /\ visits = <<>>
    /\ moments = <<>>
    /\ probes = {}
    /\ ident = [i \in Cells |-> i]

PileAdvance == StepAdvance(MaxPileAdvances)

NextPile == PileAdvance

\* a grid some particles were spawned into, then advance calls only
SpecPile == InitPile /\ [][NextPile]_vars

floor_row == {i \in Cells : is_floor(i \div width)}

\* SandGrid::new followed by spawn_sand_at on every floor cell and on a set
\* of at most MaxPile cells
InitFloor ==
    /\ \E pile \in PilesUpTo(MaxPile) :
          LET s == spawn_all(NewGrid, pile \cup floor_row) IN
          /\ meta = s.meta
          /\ velocity = s.velocity
          /\ data = s.data
    /\ panicked = FALSE
    /\ build \in {"debug", "release"}
    /\ nSpawn = 0
    /\ nAdv = 0
    /\ lastOp = NoOp
    /\ prevOp = NoOp
    /\ pre = Snapshot
    /\ swaps = <<>>
    /\ visits = <<>>
    /\ moments = <<>>
    /\ probes = {}
    /\ ident = [i \in Cells |-> i]

FloorAdvance == StepAdvance(MaxPileAdvances)

NextFloor == FloorAdvance

\* a grid with a full floor row and some particles above, then advance calls
SpecFloor == InitFloor /\ [][NextFloor]_vars

\* SandGrid::new followed by one spawn_sand_at at an in-bounds coordinate
InitLone ==
    /\ \E x \in 0 .. (width - 1), y \in 0 .. (height - 1) :
          LET s == spawn_sand_at(NewGrid, x, y) IN
          /\ meta = s.meta
          /\ velocity = s.velocity
          /\ data = s.data
    /\ panicked = FALSE
    /\ build \in {"debug", "release"}
    /\ nSpawn = 0
    /\ nAdv = 0
    /\ lastOp = NoOp
    /\ prevOp = NoOp
    /\ pre = Snapshot
    /\ swaps = <<>>
    /\ visits = <<>>
    /\ moments = <<>>
    /\ probes = {}
    /\ ident = [i \in Cells |-> i]

LoneAdvance == StepAdvance(MaxLoneAdvances)

NextLone == LoneAdvance

\* a call of LoneAdvance as the call counter sees it: simulate is total, so
\* LoneAdvance is enabled exactly when this is, and every step of it is one
LoneCalled == ~panicked /\ nAdv < MaxLoneAdvances /\ nAdv' = nAdv + 1

\* one particle in a new grid, then advance called again and again: the
\* frame loop keeps calling update, so a call that can be made is made
SpecLone == InitLone /\ [][NextLone]_vars /\ WF_nAdv(LoneCalled)

\* spawn_sand_at called directly, with a coordinate up to one past each edge
SpawnAnywhere ==
    /\ ~panicked
    /\ nSpawn < MaxSpawns
    /\ \E x \in 0 .. width, y \in 0 .. height :
         Commit(spawn_sand_at(Start, x, y), [op |-> "spawn", x |-> x, y |-> y, dt |-> 0])
    /\ nSpawn' = nSpawn + 1
    /\ nAdv' = nAdv

NextAnywhere == SpawnAnywhere

\* a new grid, then spawn calls whose coordinate nobody has checked
SpecAnywhere == Init /\ [][NextAnywhere]_vars

RestAdvance == StepAdvance(MaxRestAdvances)

NextRest == RestAdvance

\* a call of RestAdvance as the call counter sees it
RestCalled == ~panicked /\ nAdv < MaxRestAdvances /\ nAdv' = nAdv + 1

\* a grid some particles were spawned into, no spawn any more, and advance
\* called frame after frame: a call that can be made is made
SpecRest == InitPile /\ [][NextRest]_vars /\ WF_nAdv(RestCalled)

\* ------------------------------------------------------------------ claims
Occupied(m) == {i \in Cells : is_pixel_solid(m[i])}
Count(m) == Cardinality(Occupied(m))
XOf(i) == i % width
YOf(i) == i \div width
Pixel(d, i) == <<d[4 * i], d[4 * i + 1], d[4 * i + 2], d[4 * i + 3]>>
IsAdvance == lastOp.op = "advance"
IsSpawn == lastOp.op = "spawn"
FloorCells == {i \in Cells : YOf(i) = height - 1}
\* how many times the content that started in cell c was integrated
Visited(c) == Cardinality({k \in 1 .. Len(visits) : visits[k] = c})
\* how many swap_cell calls relocated the content that started in cell c
Relocated(c) == Cardinality({k \in 1 .. Len(swaps) : swaps[k][3] = c})

\* C1: an advance leaves the number of occupied cells exactly as it was, and
\* no call (spawn or advance) ever lowers it.
Conservation ==
    /\ IsAdvance => Count(meta) = Count(pre.meta)
    /\ Count(meta) >= Count(pre.meta)

ConservationWitness ==
    /\ IsAdvance /\ ~panicked
    /\ Len(swaps) >= 2
    /\ Count(pre.meta) >= 2

\* C2: an advance never fails: it runs to completion, never computes x - 1
\* below zero, and every neighbour index it uses lies inside the arrays.
AdvanceNeverFails ==
    IsAdvance =>
        /\ ~panicked
        /\ \A p \in probes : p[1] >= 0 /\ coord_to_index(p[1], p[2]) \in Cells

\* C3: the boundary is solid: a particle at (x, y) is only swapped with a
\* cell in column x-1, x or x+1 inside the grid and in a lower row, no column
\* outside 0 .. width-1 is looked at, and advance does not fail there.
BoundarySolid ==
    IsAdvance =>
        /\ ~panicked
        /\ \A p \in probes : p[1] >= 0 /\ p[1] <= width - 1
        /\ \A k \in 1 .. Len(swaps) :
              /\ XOf(swaps[k][2]) \in {XOf(swaps[k][1]) - 1, XOf(swaps[k][1]),
                                       XOf(swaps[k][1]) + 1}
              /\ YOf(swaps[k][2]) > YOf(swaps[k][1])

SpawnThenAdvanceZero ==
    /\ prevOp.op = "spawn"
    /\ IsAdvance /\ lastOp.dt = 0
SpawnedCell == coord_to_index(prevOp.x, prevOp.y)
\* the cell that holds, after the last call, what started in cell c
WhereIs(c) == CHOOSE i \in Cells : ident[i] = c

FloorInvariant ==
    /\ \A i \in FloorCells : is_pixel_solid(pre.meta[i]) => is_pixel_solid(meta[i])
    /\ \A k \in 1 .. Len(swaps) :
          /\ swaps[k][1] \notin FloorCells
          /\ ~(swaps[k][2] \in FloorCells /\ is_pixel_solid(pre.meta[swaps[k][2]]))

FloorWitness ==
    /\ IsAdvance /\ ~panicked
    /\ \E i \in FloorCells : is_pixel_solid(pre.meta[i])
    /\ \E k \in 1 .. Len(swaps) : swaps[k][2] \in FloorCells

\* C7 as stated: within one advance no cell index is an argument, as source
\* or as destination, of more than one swap_cell call.
SingleSwapPerIndex ==
    IsAdvance =>
        \A a, b \in 1 .. Len(swaps) :
            a # b => {swaps[a][1], swaps[a][2]} \cap {swaps[b][1], swaps[b][2]} = {}

\* C7 amended: within one advance no cell index is the source of more than
\* one swap_cell call (it may be the source of one and the destination of
\* another).
SingleSourcePerIndex ==
    IsAdvance =>
        \A a, b \in 1 .. Len(swaps) : a # b => swaps[a][1] # swaps[b][1]

SingleSourceWitness ==
    /\ IsAdvance /\ ~panicked
    /\ \E a, b \in 1 .. Len(swaps) : a # b /\ swaps[a][1] = swaps[b][2]

\* C8: within one advance every particle is integrated at most once and
\* relocated by at most one swap, and a relocated particle lands in a lower
\* row (a position the traversal has already passed).
NoParticleMovedTwice ==
    IsAdvance =>
        /\ \A c \in Cells : Visited(c) <= 1 /\ Relocated(c) <= 1
        /\ \A k \in 1 .. Len(swaps) : YOf(swaps[k][2]) > YOf(swaps[k][1])

\* C9: every cell holds, after an advance, the occupancy flag, the velocity
\* and the colour of one and the same earlier cell: the flag as it was, the
\* velocity as integrated on each visit, the colour as it was if never
\* visited; the contents are a rearrangement of the earlier ones, and a cell
\* that no swap names keeps its content.
SwapCoherence ==
    IsAdvance =>
        /\ \A i \in Cells :
              /\ meta[i] = pre.meta[ident[i]]
              /\ velocity[i] = pre.velocity[ident[i]] + Visited(ident[i]) * ACCEL * lastOp.dt
              /\ Visited(ident[i]) = 0 => Pixel(data, i) = Pixel(pre.data, ident[i])
              /\ Visited(ident[i]) > 0 =>
                    /\ is_pixel_solid(meta[i])
                    /\ \E n \in 1 .. Visited(ident[i]) :
                          Pixel(data, i) =
                             <<red_of(pre.velocity[ident[i]] + n * ACCEL * lastOp.dt), 0, 0, 255>>
              /\ (\A k \in 1 .. Len(swaps) : i # swaps[k][1] /\ i # swaps[k][2])
                    => ident[i] = i
        /\ {ident[i] : i \in Cells} = Cells

SwapCoherenceWitness ==
    /\ IsAdvance /\ ~panicked /\ lastOp.dt > 0
    /\ \E i, j \in Cells :
          /\ i # j /\ ident[i] # i /\ ident[j] # j
          /\ is_pixel_solid(meta[i]) /\ is_pixel_solid(meta[j])
          /\ velocity[i] # velocity[j]
          /\ XOf(ident[i]) # XOf(i)

\* C10: spawn(x, y) sets the cell to occupied, velocity 1.0 and colour
\* (0, 255, 255, 255) whatever it held, changes no other cell of any array,
\* and a second spawn(x, y) right after the first changes nothing.
SpawnEffect ==
    IsSpawn =>
        LET i == coord_to_index(lastOp.x, lastOp.y) IN
        /\ is_pixel_solid(meta[i])
        /\ velocity[i] = SEED
        /\ Pixel(data, i) = <<0, 255, 255, 255>>
        /\ \A j \in Cells \ {i} :
              /\ meta[j] = pre.meta[j]
              /\ velocity[j] = pre.velocity[j]
              /\ Pixel(data, j) = Pixel(pre.data, j)
        /\ (prevOp = lastOp) =>
              /\ meta = pre.meta
              /\ velocity = pre.velocity
              /\ data = pre.data

SpawnEffectWitness ==
    /\ IsSpawn /\ prevOp = lastOp /\ ~panicked
    /\ is_pixel_solid(pre.meta[coord_to_index(lastOp.x, lastOp.y)])
    /\ ~is_floor(lastOp.y)

\* C11: a spawn with x >= width or y >= height ends in an out-of-bounds
\* error and leaves every cell of the three arrays as it was.
OutOfRangeSpawnFails ==
    (IsSpawn /\ (lastOp.x >= width \/ lastOp.y >= height)) =>
        /\ panicked
        /\ meta = pre.meta
        /\ velocity = pre.velocity
        /\ data = pre.data

\* the visits of the last call
Visits == 1 .. Len(moments)
\* the cell at (x, y), for a coordinate inside the grid
At(x, y) == y * width + x
Interior(i) == XOf(i) > 0 /\ XOf(i) < width - 1
\* visit k found the three cells under its cell occupied
Blocked(k) ==
    LET i == moments[k].cell IN
    /\ Interior(i)
    /\ {At(XOf(i) - 1, YOf(i) + 1), At(XOf(i), YOf(i) + 1), At(XOf(i) + 1, YOf(i) + 1)}
          \subseteq moments[k].occ
SwapsFrom(i) == {j \in 1 .. Len(swaps) : swaps[j][1] = i}

LoneReachesFloor ==
    /\ [](/\ ~panicked
          /\ Cardinality({i \in Cells : meta[i] # 0}) = 1
          /\ \A i \in Cells : \A j \in Cells :
                (meta[i] # 0 /\ pre.meta[j] # 0) => i % width = j % width)
    /\ <>[]({i \in Cells : meta[i] # 0} \subseteq floor_row)

LoneWitness ==
    /\ IsAdvance /\ ~panicked
    /\ \E c \in Cells :
          /\ YOf(c) = 0
          /\ Occupied(meta) = {At(XOf(c), height - 1)}
          /\ Occupied(pre.meta) = {At(XOf(c), height - 2)}
          /\ velocity[At(XOf(c), height - 1)] > SEED

\* C14: one advance adds exactly 9.81 * dt to the velocity of every particle
\* that starts the call in a non-floor row, whatever the particle does next:
\* each such particle is integrated once, never zero times and never twice.
IntegratedExactlyOnce ==
    (IsAdvance /\ ~panicked) =>
        \A c \in Occupied(pre.meta) :
            ~is_floor(YOf(c)) =>
                /\ Visited(c) = 1
                /\ velocity[WhereIs(c)] = pre.velocity[c] + ACCEL * lastOp.dt

\* the last visit of the content that started the call at cell c
LastVisit(c) == CHOOSE k \in Visits : visits[k] = c /\ \A j \in Visits : visits[j] = c => j <= k
Max(a, b) == IF a > b THEN a ELSE b
\* round(clamp(v/10, 0, 1) * 255), v in thousandths
ClampRed(v) == (Min(Max(v, 0), 10000) * 255 + 5000) \div 10000

\* C15: a particle that advance integrated to velocity v' carries the colour
\* (round(clamp(v'/10, 0, 1) * 255), 0, 0, 255); from v' = 10 on the red
\* channel is 255, it never wraps modulo 256.
ColourClamped ==
    IsAdvance =>
        \A c \in Cells :
            Visited(c) > 0 =>
                LET v_next == moments[LastVisit(c)].v IN
                /\ velocity[WhereIs(c)] = v_next
                /\ Pixel(data, WhereIs(c)) = <<ClampRed(v_next), 0, 0, 255>>
                /\ v_next >= 10000 => Pixel(data, WhereIs(c))[1] = 255

ColourClampedWitness ==
    /\ IsAdvance /\ ~panicked
    /\ \E c \in Cells :
          /\ Visited(c) > 0
          /\ moments[LastVisit(c)].v > 10000
          /\ Pixel(data, WhereIs(c)) = <<255, 0, 0, 255>>
          /\ \E d \in Cells : Visited(d) > 0 /\ Pixel(data, WhereIs(d))[1] \in 1 .. 254

\* visit k found the cell under its cell empty, with v' >= 1.0
FreeBelow(k) ==
    /\ moments[k].v >= THRESHOLD
    /\ At(XOf(moments[k].cell), YOf(moments[k].cell) + 1) \notin moments[k].occ
\* the cells (x, y+1 .. r) were all empty at visit k
ClearDownTo(k, r) ==
    \A q \in (YOf(moments[k].cell) + 1) .. r : At(XOf(moments[k].cell), q) \notin moments[k].occ
\* the lowest row visit k may fall to, the floor row excluded
FallCap(k) == Min(YOf(moments[k].cell) + round(moments[k].v), height - 2)
\* the row the claim gives for the straight fall of visit k
FallRow(k) ==
    LET y == YOf(moments[k].cell) IN
    IF y = height - 2 THEN height - 1
    ELSE CHOOSE r \in (y + 1) .. FallCap(k) :
            /\ ClearDownTo(k, r)
            /\ \A r2 \in (y + 1) .. FallCap(k) : ClearDownTo(k, r2) => r2 <= r

\* C16: a particle at (x, y) above the floor row, with v' >= 1.0 and (x, y+1)
\* empty when it is processed, is swapped with (x, r): r = height-1 if
\* y = height-2, otherwise the largest row in y+1 .. min(y + round(v'),
\* height-2) with every cell (x, y+1 .. r) empty. It passes over no occupied
\* cell, stays in the grid, and enters the floor row only from row height-2.
StraightFall ==
    IsAdvance =>
        \A k \in Visits :
            FreeBelow(k) =>
                LET i == moments[k].cell IN
                /\ \E j \in 1 .. Len(swaps) :
                      /\ SwapsFrom(i) = {j}
                      /\ swaps[j] = <<i, At(XOf(i), FallRow(k)), visits[k]>>
                /\ FallRow(k) \in (YOf(i) + 1) .. (height - 1)
                /\ ClearDownTo(k, FallRow(k))
                /\ FallRow(k) = height - 1 => YOf(i) = height - 2

StraightFallWitness ==
    /\ IsAdvance /\ ~panicked
    /\ \E k \in Visits : FreeBelow(k) /\ FallRow(k) >= YOf(moments[k].cell) + 2
    /\ \E k \in Visits :
          /\ FreeBelow(k) /\ FallRow(k) < FallCap(k)
          /\ At(XOf(moments[k].cell), FallRow(k) + 1) \in moments[k].occ

\* visit k, in an interior column, found the cell under its cell occupied,
\* with v' >= 1.0
Resting(k) ==
    /\ moments[k].v >= THRESHOLD
    /\ Interior(moments[k].cell)
    /\ At(XOf(moments[k].cell), YOf(moments[k].cell) + 1) \in moments[k].occ
\* the cell one row down and d columns aside of the cell of visit k
Aside(k, d) == At(XOf(moments[k].cell) + d, YOf(moments[k].cell) + 1)

VelocityAtLeastSeed ==
    /\ \A i \in Cells : is_pixel_solid(meta[i]) => velocity[i] >= SEED
    /\ IsAdvance =>
          /\ \A k \in Visits : ~below_threshold(moments[k].v)
          /\ ~panicked =>
                \A c \in Occupied(pre.meta) : ~is_floor(YOf(c)) => Visited(c) >= 1

VelocityAtLeastSeedWitness ==
    /\ IsAdvance /\ ~panicked /\ lastOp.dt = 0
    /\ \E k \in Visits :
          /\ moments[k].v = THRESHOLD
          /\ SwapsFrom(moments[k].cell) # {}
    /\ \E i \in Cells : is_pixel_solid(meta[i]) /\ velocity[i] = SEED /\ ident[i] # i

\* the occupied cells of m in rows r .. height-1
FromRow(m, r) == Cardinality({i \in Occupied(m) : YOf(i) >= r})

\* C19: particles never move upward: for every row r an advance leaves at
\* least as many occupied cells in rows r .. height-1 as there were before.
NeverUpward ==
    IsAdvance =>
        \A r \in 0 .. (height - 1) : FromRow(meta, r) >= FromRow(pre.meta, r)

NeverUpwardWitness ==
    /\ IsAdvance /\ ~panicked
    /\ \E r \in 1 .. (height - 1) : FromRow(meta, r) > FromRow(pre.meta, r) + 1
    /\ \E j \in 1 .. Len(swaps) : XOf(swaps[j][1]) # XOf(swaps[j][2])

\* C20: an advance leaves every floor-row cell that is occupied when the
\* call starts as it was: same velocity, same colour, no integration and no
\* recolouring. A landed particle keeps the velocity it landed with, and a
\* particle spawned on the floor keeps velocity 1.0 and colour
\* (0, 255, 255, 255).
FloorFrozen ==
    IsAdvance =>
        \A i \in FloorCells :
            is_pixel_solid(pre.meta[i]) =>
                /\ is_pixel_solid(meta[i])
                /\ velocity[i] = pre.velocity[i]
                /\ Pixel(data, i) = Pixel(pre.data, i)
                /\ ident[i] = i
                /\ Visited(i) = 0
                /\ \A k \in 1 .. Len(swaps) : swaps[k][1] # i /\ swaps[k][2] # i

FloorFrozenWitness ==
    /\ IsAdvance /\ ~panicked /\ lastOp.dt > 0 /\ nAdv = 2
    /\ \E i \in FloorCells :
          /\ is_pixel_solid(pre.meta[i])
          /\ velocity[i] > SEED
          /\ Pixel(data, i)[1] > 0
    /\ \E i \in FloorCells :
          /\ is_pixel_solid(pre.meta[i])
          /\ velocity[i] = SEED
          /\ Pixel(data, i) = <<0, 255, 255, 255>>

\* the last call left the occupancy array as it found it
AtRest == IsAdvance /\ meta = pre.meta
\* the particles the last call found and left in place above the floor row
SettledCells ==
    {i \in Occupied(meta) : ~is_floor(YOf(i)) /\ is_pixel_solid(pre.meta[i]) /\ ident[i] = i}

\* C21: with no further spawn and advance called again and again, after
\* finitely many calls the occupancy array stops changing for all later
\* calls: the calls keep completing, a call that changes no occupancy is
\* followed only by calls that change none, and each of them still adds
\* 9.81 * dt to the velocity of every settled particle above the floor row.
ComesToRest ==
    /\ [][AtRest => meta' = meta]_vars
    /\ []((AtRest /\ ~panicked) =>
            \A i \in SettledCells : velocity[i] = pre.velocity[i] + ACCEL * lastOp.dt)
    /\ <>[](AtRest /\ ~panicked)

====
